---- MODULE Spec2Model ----
(***************************************************************************)
(* Orchestration, scheduling and publishing state machine of Vaani         *)
(* Sentinel X: agents/scheduler.py (Scheduler and Scheduling Store),       *)
(* agents/publisher_sim.py (Publisher) and cli/command_center.py           *)
(* (Orchestrator).                                                         *)
(*                                                                         *)
(* Stage programs are operating-system processes working on one shared     *)
(* SQLite table and one shared content directory.  A step of a stage is    *)
(* what it does between two points at which another process can observe    *)
(* or change the shared state: one committed SQL statement or transaction, *)
(* one file written.                                                       *)
(***************************************************************************)
EXTENDS Integers, Sequences, FiniteSets, Bags, TLC

\* ------------------------------------------------------------------ bounds
MaxFiles == 2      \* content artifacts in the Content Store, one process at a time
MaxShared == 1     \* content artifacts in the Content Store, concurrent processes
NProcs   == 2      \* stage processes alive at once on the shared store
MaxTime  == 2      \* ticks of the wall clock
TicksPerSecond == 2  \* resolution of the wall clock
MaxKills == 1      \* kill signals delivered to stage processes
NCli     == 2      \* command_center.py invocations (one command each)
MaxRows  == 2      \* rows of a Scheduling Store handed to fetch_due_posts
MaxText  == 282    \* characters of a content text handed to format_content

VARIABLES
  files,      \* Content Store: the artifacts, in os.listdir order
  audio,      \* Content Store: the .mp3 companions, as [lang, id, platform]
  tableExists,\* Scheduling Store: table scheduled_posts exists
  db,         \* Scheduling Store: rows of scheduled_posts, in rowid order
  delivered,  \* SCHEDULED_POSTS_DIR: the delivery records written
  now,        \* datetime.now()
  procs,      \* the running stage processes on the store (a bag: they are anonymous)
  last,       \* history: how the stage process that ended last ended
  attempts,   \* history: post_id -> delivery attempts since the last reset
  kills,      \* history: kill signals sent so far
  cap,        \* how many stage processes the environment runs at once
  cli,        \* the command_center.py processes: command, position, module globals
  children,   \* the stage processes command_center.py started that are alive
  contentDir, \* CONTENT_DIR exists
  schedulerDbDir  \* SCHEDULER_DB_DIR exists

storeVars ==
  <<files, audio, tableExists, db, delivered, now, procs, last, attempts, kills, cap>>

orchVars == <<cli, children, contentDir, schedulerDbDir>>

\* ------------------------------------------------------- program constants
LANGUAGES == <<"en", "hi", "sa">>
CONTENT_TYPES == <<"tweet", "post", "voice">>
KNOWN_PLATFORMS == {"twitter", "instagram", "linkedin", "sanatan"}
BackdateHours == 1
MaxAttempts == 3
TweetLimit == 280

\* strftime('%Y-%m-%d %H:%M:%S') of a clock value: the whole seconds of it.
\* The strings compare as the seconds do.
strftime(t) == t \div TicksPerSecond

\* The offset taken the other way (left out: the backdating).
ForwardDated(hours) == 0 - hours * 3600 * TicksPerSecond

\* timedelta(hours=h), in ticks of the clock.
timedelta(hours) == hours * 3600 * TicksPerSecond

platforms(content_type) ==
  CASE content_type = "tweet" -> <<"twitter">>
    [] content_type = "post"  -> <<"instagram", "linkedin">>
    [] content_type = "voice" -> <<"sanatan">>

\* The (content_type, platform) pairs in the order run_scheduler visits them.
Calls ==
  << [ct |-> "tweet", pf |-> "twitter"],
     [ct |-> "post",  pf |-> "instagram"],
     [ct |-> "post",  pf |-> "linkedin"],
     [ct |-> "voice", pf |-> "sanatan"] >>

Range(s) == {s[i] : i \in DOMAIN s}

\* Enough values for every row the processes can insert.  A uuid whose row a
\* reset deleted is written 0 in what still mentions it.
PostIds == 1..(NProcs * MaxFiles)

\* ------------------------------------------------- the conditions left out
\* What each condition of the program is there for shows when it is left out.
NoPrimaryKey(post_id, taken) == TRUE

AnyPlatform(file_platform, platform) == TRUE

PendingOnly(r, selected_language, t) ==
  /\ r.status = "pending"
  /\ (selected_language # "all" => r.lang = selected_language)

AudioNeverMissing(content_type, platform, audio_found) == FALSE

AlwaysSleeps(attempt) == TRUE

NeverFailed(returncode) == FALSE

NeverLast(attempt) == FALSE

SharedPid(i, k) == <<1, k>>

KeepTable(table) == table

KeepsKey(map, key) == map

NothingMissing(content_id, file_platform) == FALSE

FailsOnSignalOnly(returncode) == returncode < 0

AllDirs(selected_language) == LANGUAGES
UpdateWithoutWhere(exists, table, content_id, platform, lang, status) ==
  IF ~exists THEN table
  ELSE [i \in DOMAIN table |-> [table[i] EXCEPT !.status = status]]

\* DELETE in place of UPDATE.
DeleteWhere(exists, table, content_id, platform, lang, status) ==
  IF ~exists THEN table
  ELSE SelectSeq(table, LAMBDA r : ~(/\ r.content_id = content_id
                                     /\ r.platform = platform
                                     /\ r.lang = lang))

AnyLanguage(r, selected_language, t) ==
  /\ r.status = "pending"
  /\ r.scheduled_time <= strftime(t)

NeverRunning(active_pipelines, key) == FALSE

WholeText(s, n) == s

RaiseKeepingKey(c, key, failed_at) ==
  [c EXCEPT !.pc = "exited", !.report = "failed", !.failed_at = failed_at]

\* ------------------------------------------------------------ content store
Art(l, t, fid, fp, sfx, k, id, pl, tx) ==
  [lang |-> l, ftype |-> t, fid |-> fid, fplat |-> fp, suffix |-> sfx,
   kind |-> k, id |-> id, platform |-> pl, text |-> tx]

\* File name {ftype}_{fid}_{fplat}_{suffix}.json under content_ready/{lang}/.
FileName(f) == <<f.lang, f.ftype, f.fid, f.fplat, f.suffix>>

\* [0-9a-f]+ of get_content_file's pattern.
IsHex(sfx) == sfx \in {"abc", "def"}

TypePlatform == {<<"tweet", "twitter">>, <<"post", "instagram">>,
                 <<"post", "linkedin">>, <<"voice", "sanatan">>}

\* Well-formed artifacts of content unit 42, as ai_writer_voicegen names and
\* fills them; the "def" one is a second file of the same unit and platform.
GoodArtifacts ==
  { Art("en", tp[1], "42", tp[2], "abc", "object", "42", tp[2], "t") : tp \in TypePlatform }
  \cup { Art("en", "tweet", "42", "twitter", "def", "object", "42", "twitter", "t"),
         Art("hi", "tweet", "42", "twitter", "abc", "object", "42", "twitter", "t") }

\* Artifacts of content unit 7 with one defect each: id or platform missing,
\* text empty, file not JSON, JSON not an object, declared platform other
\* than the file name's, suffix not hexadecimal.
DefectArtifacts ==
  UNION { { Art("en", tp[1], "7", tp[2], "abc", "object", "", tp[2], "t"),
            Art("en", tp[1], "7", tp[2], "abc", "object", "7", "", "t"),
            Art("en", tp[1], "7", tp[2], "abc", "object", "7", tp[2], ""),
            Art("en", tp[1], "7", tp[2], "abc", "invalid", "", "", ""),
            Art("en", tp[1], "7", tp[2], "abc", "array", "", "", "") }
        : tp \in {<<"tweet", "twitter">>} }
  \cup { Art("en", "tweet", "7", "twitter", "abc", "object", "7", "instagram", "t"),
         Art("en", "post", "7", "instagram", "abc", "object", "7", "linkedin", "t"),
         Art("en", "post", "7", "instagram", "abc", "object", "7", "twitter", "t"),
         Art("en", "tweet", "7", "twitter", "xyz", "object", "7", "twitter", "t") }

ArtifactUniverse == GoodArtifacts \cup DefectArtifacts

DistinctNames(s) ==
  \A i, j \in DOMAIN s : FileName(s[i]) = FileName(s[j]) => i = j

\* The directory listings of at most n artifacts of U (a file name names one file).
RECURSIVE Listings(_, _)
Listings(U, n) ==
  IF n = 0 THEN {<<>>}
  ELSE LET shorter == Listings(U, n - 1) IN
       shorter \cup
       { x \in { Append(s, a) : s \in shorter, a \in U } : DistinctNames(x) }

\* The .mp3 companions there can be: one per voice artifact, named after it.
CompanionKeys(fs) ==
  { [lang |-> f.lang, id |-> f.fid, platform |-> f.fplat] :
      f \in {g \in Range(fs) : g.ftype = "voice"} }

\* -------------------------------------------------------- scheduling store
Row(content_id, platform, content_type, content, scheduled_time, status, post_id, lang) ==
  [content_id |-> content_id, platform |-> platform, content_type |-> content_type,
   content |-> content, scheduled_time |-> scheduled_time, status |-> status,
   post_id |-> post_id, lang |-> lang]

TERMINAL == {"published", "failed", "preview"}

\* post_id TEXT PRIMARY KEY: an INSERT of a key the table (or the open
\* transaction) holds raises sqlite3.IntegrityError.
PrimaryKeyFree(post_id, taken) == post_id \notin taken

\* ------------------------------------------------------------------ scheduler
\* `if file_platform != platform: continue`
PlatformMatches(file_platform, platform) == file_platform = platform

\* uuid.uuid4(): either the key of a row (draw names it) or a value that is
\* no row's key, written as the least such value: which one it is changes nothing.
uuid4(draw, taken) ==
  IF draw \in taken \/ PostIds \subseteq taken THEN draw
  ELSE CHOOSE id \in PostIds \ taken : \A other \in PostIds \ taken : id <= other

\* `if not content_id or not file_platform`
MissingIdOrPlatform(content_id, file_platform) ==
  content_id = "" \/ file_platform = ""

\* The loop of schedule_content over content_files, uuids[i] being the draw of
\* uuid.uuid4() for the i-th file.  err is the exception that leaves
\* the function ("" for none); rows are the rows of the open transaction.
RECURSIVE schedule_loop(_, _, _, _, _, _, _, _)
schedule_loop(content_files, uuids, platform, content_type, lang, t, taken, rows) ==
  IF content_files = <<>> THEN [err |-> "", rows |-> rows]
  ELSE
    LET f == Head(content_files)
        rest == Tail(content_files)
        post_id == uuid4(Head(uuids), taken)
        skip == schedule_loop(rest, Tail(uuids), platform, content_type, lang,
                              t, taken, rows)
    IN  IF f.kind = "invalid" THEN skip             \* json.JSONDecodeError: caught
        ELSE IF f.kind = "array" THEN                 \* list has no .get
          [err |-> "AttributeError", rows |-> <<>>]
        ELSE IF MissingIdOrPlatform(f.id, f.platform) THEN skip
        ELSE IF ~PlatformMatches(f.platform, platform) THEN skip
        ELSE IF ~PrimaryKeyFree(post_id, taken) THEN
          [err |-> "IntegrityError", rows |-> <<>>]
        ELSE schedule_loop(rest, Tail(uuids), platform, content_type, lang, t,
               taken \cup {post_id},
               Append(rows, Row(f.id, platform, content_type, f.text,
                                strftime(t - timedelta(BackdateHours)),
                                "pending", post_id, lang)))

\* schedule_content: the transaction commits only if the loop ends normally;
\* any exception closes the connection and the inserted rows are lost.
schedule_content(content_files, uuids, platform, content_type, lang, t, table) ==
  schedule_loop(content_files, uuids, platform, content_type, lang, t,
                {table[i].post_id : i \in DOMAIN table}, <<>>)

dirs_to_process(selected_language) ==
  SelectSeq(LANGUAGES, LAMBDA d : selected_language = "all" \/ d = selected_language)

\* The schedule_content calls of a run, in order: per directory, per content
\* type, per platform.
Plan(selected_language) ==
  LET dirs == dirs_to_process(selected_language) IN
  [ i \in 1..(Len(dirs) * Len(Calls)) |->
      [lang |-> dirs[((i - 1) \div Len(Calls)) + 1],
       ct   |-> Calls[((i - 1) % Len(Calls)) + 1].ct,
       pf   |-> Calls[((i - 1) % Len(Calls)) + 1].pf] ]

\* files_in_dir filtered by f.startswith(content_type + "_") and ".json".
content_files(fs, lang, content_type) ==
  SelectSeq(fs, LAMBDA f : f.lang = lang /\ f.ftype = content_type)

\* First call at or after position pos that has files (`if content_files:`);
\* Len(plan) + 1 when there is none.
RECURSIVE NextCall(_, _, _)
NextCall(fs, plan, pos) ==
  IF pos > Len(plan) THEN Len(plan) + 1
  ELSE IF content_files(fs, plan[pos].lang, plan[pos].ct) # <<>> THEN pos
  ELSE NextCall(fs, plan, pos + 1)

\* First call of the directory after the one call pos belongs to
\* (`except Exception: continue` of the directory loop).
NextDir(pos) == (((pos - 1) \div Len(Calls)) + 1) * Len(Calls) + 1

\* ------------------------------------------------------------------ publisher
\* WHERE status = 'pending' AND scheduled_time <= ? (datetime.now()), and
\* AND lang = ? unless selected_language is 'all'.
IsDue(r, selected_language, t) ==
  /\ r.status = "pending"
  /\ r.scheduled_time <= strftime(t)
  /\ (selected_language # "all" => r.lang = selected_language)

\* fetch_due_posts: the SELECT; a table that does not exist raises, the
\* exception is logged and the empty list returned.  post_id is not selected:
\* it is carried along for the history only.
fetch_due_posts(selected_language, exists, table, t) ==
  IF ~exists THEN <<>>
  ELSE
    LET due == SelectSeq(table, LAMBDA r : IsDue(r, selected_language, t))
    IN  [ i \in DOMAIN due |->
            [content_id |-> due[i].content_id, platform |-> due[i].platform,
             content_type |-> due[i].content_type, lang |-> due[i].lang,
             post_id |-> due[i].post_id] ]

\* get_content_file: the files of the language directory whose name matches
\* ^{content_type}_{content_id}_{platform}_[0-9a-f]+\.json$, in listing order.
get_content_file(fs, content_id, content_type, lang, platform) ==
  SelectSeq(fs, LAMBDA f :
    /\ f.lang = lang /\ f.ftype = content_type /\ f.fid = content_id
    /\ f.fplat = platform /\ IsHex(f.suffix))

\* get_audio_file: a voice_{content_id}_{platform}_*.mp3 exists in the directory.
get_audio_file(au, content_id, lang, platform) ==
  [lang |-> lang, id |-> content_id, platform |-> platform] \in au

\* `if content_type == 'voice' and platform == 'sanatan' and not audio_file`
AudioMissing(content_type, platform, audio_found) ==
  content_type = "voice" /\ platform = "sanatan" /\ ~audio_found

\* publish_to_platform: written is whether a delivery record is saved, status
\* the status stored in it; ok is the value returned.
publish_to_platform(platform, content, preview_mode) ==
  IF content.kind # "object" THEN       \* content.get raises: caught, False
    [ok |-> FALSE, written |-> FALSE, status |-> "failed"]
  ELSE IF platform \notin KNOWN_PLATFORMS THEN  \* post_data['content'] raises
    [ok |-> FALSE, written |-> FALSE, status |-> "failed"]
  ELSE IF ~preview_mode
    THEN [ok |-> TRUE, written |-> TRUE, status |-> "success"]
    ELSE [ok |-> TRUE, written |-> TRUE, status |-> "preview"]

\* publish_content up to its update_status call: the status it will store
\* and the delivery record it has written (if any).
publish_content(fs, au, post, preview_mode) ==
  LET found == get_content_file(fs, post.content_id, post.content_type,
                                post.lang, post.platform)
  IN  IF found = <<>> THEN [status |-> "failed", written |-> FALSE, record |-> "none"]
      ELSE IF Head(found).kind = "invalid" THEN    \* json.load raises
        [status |-> "failed", written |-> FALSE, record |-> "none"]
      ELSE IF AudioMissing(post.content_type, post.platform,
                 post.content_type = "voice"
                 /\ get_audio_file(au, post.content_id, post.lang, post.platform))
        THEN [status |-> "failed", written |-> FALSE, record |-> "none"]
      ELSE
        LET r == publish_to_platform(post.platform, Head(found), preview_mode) IN
        IF r.ok
          THEN [status |-> IF preview_mode THEN "preview" ELSE "published",
                written |-> r.written, record |-> r.status]
          ELSE [status |-> "failed", written |-> r.written, record |-> r.status]

\* update_status: UPDATE ... WHERE content_id = ? AND platform = ? AND lang = ?;
\* an exception (no table) is logged and swallowed.
update_status(exists, table, content_id, platform, lang, status) ==
  IF ~exists THEN table
  ELSE [ i \in DOMAIN table |->
         IF /\ table[i].content_id = content_id
            /\ table[i].platform = platform
            /\ table[i].lang = lang
         THEN [table[i] EXCEPT !.status = status]
         ELSE table[i] ]

\* ------------------------------------------------------------ stage processes
\* The local state of a running stage process.
Local(kind, pc, lang, preview) ==
  [kind |-> kind, pc |-> pc, lang |-> lang, preview |-> preview, pos |-> 0,
   attempt |-> 0, sleeps |-> 0, batch |-> <<>>, idx |-> 0, pend |-> "",
   writes |-> 0, errors |-> {}]

\* How a stage process ended: its result, the fetch rounds and sleeps it made,
\* the update_status calls it made, the exceptions it logged.
Ended(r, result) ==
  [kind |-> r.kind, lang |-> r.lang, result |-> result, rounds |-> r.attempt,
   sleeps |-> r.sleeps, writes |-> r.writes, errors |-> r.errors]

NoneEnded == Ended(Local("", "", "", FALSE), "")

Running == BagToSet(procs)

Replace(r, r2) == (procs (-) SetToBag({r})) (+) SetToBag({r2})
Remove(r) == procs (-) SetToBag({r})
Add(r) == procs (+) SetToBag({r})

SelectableLanguages == {"en", "hi", "all"}

ZeroAttempts == [id \in PostIds |-> 0]

\* A reset deleted every row: what a Publisher holds of them names no row any more.
Forget(r) ==
  [r EXCEPT !.batch = [i \in DOMAIN r.batch |-> [r.batch[i] EXCEPT !.post_id = 0]]]

RECURSIVE ForgetAll(_)
ForgetAll(b) ==
  IF DOMAIN b = {} THEN EmptyBag
  ELSE LET r == CHOOSE x \in DOMAIN b : TRUE
           rest == [x \in DOMAIN b \ {r} |-> b[x]]
       IN  ForgetAll(rest) (+) [x \in {Forget(r)} |-> b[r]]

\* ---- Scheduler: run_scheduler
\* After a call: go on with the next call that has files, or finish.
SchedAdvance(r, next, errs) ==
  LET plan == Plan(r.lang)
      n == NextCall(files, plan, next)
  IN  IF n > Len(plan)
        THEN [done |-> TRUE, r |-> r,
              ended |-> Ended([r EXCEPT !.errors = errs], "completed")]
        ELSE [done |-> FALSE, r |-> [r EXCEPT !.pc = "schedule", !.pos = n, !.errors = errs],
              ended |-> NoneEnded]

Continue(r, adv) ==
  /\ procs' = IF adv.done THEN Remove(r) ELSE Replace(r, adv.r)
  /\ last' = IF adv.done THEN adv.ended ELSE last

\* DROP TABLE IF EXISTS scheduled_posts: the rows left of the table.
DropTable(table) == <<>>

\* Process start and DROP TABLE IF EXISTS (committed on its own): every row
\* is gone, whoever wrote it.
SchedProcess(lang) ==
  /\ tableExists' = FALSE
  /\ db' = DropTable(db)
  /\ attempts' = ZeroAttempts
  /\ delivered' = { [d EXCEPT !.post_id = 0] : d \in delivered }
  /\ procs' = ForgetAll(procs) (+) SetToBag({Local("sched", "create", lang, FALSE)})
  /\ last' = NoneEnded
  /\ UNCHANGED <<files, audio, now, kills, cap>>

\* A Scheduler process is started from a shell.
SchedStart(lang) ==
  /\ BagCardinality(procs) < cap
  /\ SchedProcess(lang)
  /\ UNCHANGED orchVars

\* CREATE TABLE scheduled_posts: fails if the table exists again
\* (sqlite3.OperationalError is logged and re-raised: the process dies).
SchedCreate(r) ==
  /\ r.kind = "sched" /\ r.pc = "create"
  /\ IF tableExists
       THEN /\ procs' = Remove(r)
            /\ last' = Ended([r EXCEPT !.errors = {"OperationalError"}], "error")
            /\ UNCHANGED tableExists
       ELSE /\ tableExists' = TRUE
            /\ Continue(r, SchedAdvance(r, 1, {}))
  /\ UNCHANGED <<files, audio, db, delivered, now, attempts, kills, cap>>
  /\ UNCHANGED orchVars

\* One schedule_content call: CREATE TABLE IF NOT EXISTS, the loop, the commit.
SchedBatch(r) ==
  /\ r.kind = "sched" /\ r.pc = "schedule"
  /\ LET call == Plan(r.lang)[r.pos]
         cf == content_files(files, call.lang, call.ct)
     IN \E uuids \in [1..Len(cf) -> PostIds] :
          LET out == schedule_content(cf, uuids, call.pf, call.ct, call.lang, now, db) IN
          /\ tableExists' = TRUE
          /\ db' = IF out.err = "" THEN db \o out.rows ELSE db
          /\ Continue(r, IF out.err = ""
                           THEN SchedAdvance(r, r.pos + 1, r.errors)
                           ELSE SchedAdvance(r, NextDir(r.pos), r.errors \cup {out.err}))
  /\ UNCHANGED <<files, audio, delivered, now, attempts, kills, cap>>
  /\ UNCHANGED orchVars

\* ---- Publisher: run_publisher_sim
\* Process start: shutil.rmtree(SCHEDULED_POSTS_DIR), the token.
PubProcess(lang, preview_mode) ==
  /\ delivered' = {}
  /\ procs' = Add([Local("pub", "fetch", lang, preview_mode) EXCEPT !.attempt = 1])
  /\ last' = NoneEnded
  /\ UNCHANGED <<files, audio, tableExists, db, now, attempts, kills, cap>>

\* A Publisher process is started from a shell.
PubStart(lang, preview_mode) ==
  /\ BagCardinality(procs) < cap
  /\ PubProcess(lang, preview_mode)
  /\ UNCHANGED orchVars

\* `for attempt in range(1, max_attempts + 1)` has no further round.
LastRound(attempt) == attempt >= MaxAttempts

\* `if attempt < max_attempts: time.sleep(5)` after an empty round.
SleepsAfterEmpty(attempt) == attempt < MaxAttempts

\* One round of the polling loop: fetch_due_posts; on an empty result the
\* sleep (unless it was the last round) and the next round.
PubFetch(r) ==
  /\ r.kind = "pub" /\ r.pc = "fetch"
  /\ LET due_posts == fetch_due_posts(r.lang, tableExists, db, now) IN
     IF due_posts = <<>> THEN
       LET slept == [r EXCEPT !.sleeps = IF SleepsAfterEmpty(r.attempt) THEN @ + 1 ELSE @] IN
       IF LastRound(r.attempt)
         THEN /\ procs' = Remove(r)
              /\ last' = Ended(slept, "no_posts_processed")
         ELSE /\ procs' = Replace(r, [slept EXCEPT !.attempt = @ + 1])
              /\ UNCHANGED last
     ELSE /\ procs' = Replace(r, [r EXCEPT !.pc = "publish", !.batch = due_posts,
                                          !.idx = 1, !.attempt = 0, !.sleeps = 0])
          /\ UNCHANGED last
  /\ UNCHANGED <<files, audio, tableExists, db, delivered, now, attempts, kills, cap>>
  /\ UNCHANGED orchVars

\* After the update_status of batch[idx]: the next post, or the end of the run.
PubAdvance(r) ==
  IF r.idx < Len(r.batch)
    THEN [done |-> FALSE,
          r |-> [r EXCEPT !.pc = "publish", !.idx = @ + 1, !.pend = "", !.writes = @ + 1],
          ended |-> NoneEnded]
    ELSE [done |-> TRUE, r |-> r, ended |-> Ended([r EXCEPT !.writes = @ + 1], "processed")]

\* The delivery record post_{content_id}_{platform}_{uuid}.json; n stands for
\* the uuid of the file name: every record is a file of its own.
DeliveryRecord(post, status, n) ==
  [content_id |-> post.content_id, platform |-> post.platform,
   language |-> post.lang, status |-> status, post_id |-> post.post_id, n |-> n]

\* publish_content for batch[idx], up to the delivery record: a failure
\* writes no record and stores 'failed' at once.
PubPublish(r) ==
  /\ r.kind = "pub" /\ r.pc = "publish"
  /\ LET post == r.batch[r.idx]
         out == publish_content(files, audio, post, r.preview)
     IN /\ attempts' = IF post.post_id = 0 THEN attempts
                       ELSE [attempts EXCEPT ![post.post_id] = @ + 1]
        /\ IF out.written
             THEN /\ delivered' = delivered \cup
                       {DeliveryRecord(post, out.record, Cardinality(delivered) + 1)}
                  /\ procs' = Replace(r, [r EXCEPT !.pc = "update", !.pend = out.status])
                  /\ UNCHANGED <<db, last>>
             ELSE /\ db' = update_status(tableExists, db, post.content_id,
                                         post.platform, post.lang, out.status)
                  /\ Continue(r, PubAdvance(r))
                  /\ UNCHANGED delivered
  /\ UNCHANGED <<files, audio, tableExists, now, kills, cap>>
  /\ UNCHANGED orchVars

\* update_status after a delivery record was written.
PubUpdate(r) ==
  /\ r.kind = "pub" /\ r.pc = "update"
  /\ LET post == r.batch[r.idx] IN
     db' = update_status(tableExists, db, post.content_id, post.platform,
                         post.lang, r.pend)
  /\ Continue(r, PubAdvance(r))
  /\ UNCHANGED <<files, audio, tableExists, delivered, now, attempts, kills, cap>>
  /\ UNCHANGED orchVars

\* ---- environment
\* kill_process: the stage process is terminated where it stands.
Kill(r) ==
  /\ kills < MaxKills
  /\ kills' = kills + 1
  /\ procs' = Remove(r)
  /\ last' = Ended(r, "killed")
  /\ UNCHANGED <<files, audio, tableExists, db, delivered, now, attempts, cap>>
  /\ UNCHANGED orchVars

Tick ==
  /\ now < MaxTime
  /\ now' = now + 1
  /\ UNCHANGED <<files, audio, tableExists, db, delivered, procs, last, attempts, kills, cap>>
  /\ UNCHANGED orchVars

\* --------------------------------------------------------------- orchestrator
\* cli/command_center.py.  main() serves one command of sys.argv and returns;
\* active_processes and active_pipelines are module globals, so each
\* invocation of command_center.py starts with its own two empty maps.
PIPELINE ==
  << [id |-> "miner_sanitizer",       name |-> "Agent A: Miner & Sanitizer"],
     [id |-> "multilingual_pipeline", name |-> "Agent F: Multilingual Router"],
     [id |-> "sentiment_tuner",       name |-> "Agent H: Sentiment Tuner"],
     [id |-> "ai_writer_voicegen",    name |-> "Agent G: AI Writer & Voice Generator"],
     [id |-> "security_guard",        name |-> "Agent E: Security & Compliance"],
     [id |-> "adaptive_targeter",     name |-> "Agent I: Context-Aware Platform Targeter"],
     [id |-> "scheduler",             name |-> "Agent D: Scheduler"],
     [id |-> "publisher_sim",         name |-> "Agent D: Publisher Simulator"],
     [id |-> "analytics_collector",   name |-> "Agent K: Analytics Collector"],
     [id |-> "strategy_recommender",  name |-> "Adaptive Improvement Trigger"] >>

ALLOWED_LANGUAGES == {"en", "hi", "sa", "all"}

PipelineCommands == {"run-pipeline", "kill-pipeline", "restart-pipeline"}

Cli == 1..NCli

\* Exit codes of a stage process: success, sys.exit(1), terminated by a signal.
ExitCodes == {0, 1, -15}

pipeline_key(language) == <<"pipeline", language>>

\* dict operations
Del(map, key) == [x \in DOMAIN map \ {key} |-> map[x]]
Put(map, key, value) ==
  [x \in DOMAIN map \cup {key} |-> IF x = key THEN value ELSE map[x]]

\* A command_center.py process that has not read its command yet.
IdleCli ==
  [cmd |-> "", lang |-> "", pc |-> "idle", k |-> 0,
   active_pipelines |-> <<>>, active_processes |-> <<>>,
   launched |-> <<>>, exits |-> <<>>, report |-> "", failed_at |-> "",
   agent |-> "", listed |-> {}, signals |-> <<>>]

\* The process id of the k-th stage process that invocation i starts.
Pid(i, k) == <<i, k>>

\* validate_environment: CONTENT_DIR must exist; SCHEDULER_DB_DIR is created.
validate_environment == contentDir

\* `if process.returncode != 0`
StageFailed(returncode) == returncode # 0

\* `if pipeline_key in active_pipelines`: the run is refused.
AlreadyRunning(active_pipelines, key) == key \in DOMAIN active_pipelines

\* `except Exception: ... raise` and `finally: del active_pipelines[key]` of
\* run_pipeline: the command ends with the exception, the key is removed.
Raise(c, key, failed_at) ==
  [c EXCEPT !.pc = "exited", !.report = "failed", !.failed_at = failed_at,
            !.active_pipelines = Del(@, key)]

\* kill_pipeline on the maps of one invocation: the maps after it and the
\* processes it terminated; found is FALSE when the key is not registered.
kill_pipeline(c, language) ==
  LET key == pipeline_key(language) IN
  IF key \notin DOMAIN c.active_pipelines
    THEN [found |-> FALSE, c |-> c, killed |-> {}]
    ELSE
      LET members == Range(c.active_pipelines[key])
          tracked == members \cap DOMAIN c.active_processes
      IN  [found |-> TRUE,
           c |-> [c EXCEPT !.active_processes =
                              [a \in DOMAIN @ \ tracked |-> @[a]],
                           !.active_pipelines = Del(@, key)],
           killed |-> {c.active_processes[a] : a \in tracked}]

\* main(): the command and its language argument are read and checked.
Command(i, cmd, language) ==
  /\ cli[i].pc = "idle"
  /\ cli' = [cli EXCEPT ![i] = [@ EXCEPT !.cmd = cmd, !.lang = language,
               !.pc = CASE cmd = "run-pipeline" -> "run_pipeline"
                        [] cmd = "kill-pipeline" -> "kill_pipeline"
                        [] cmd = "restart-pipeline" -> "restart_pipeline"]]
  /\ UNCHANGED <<children, contentDir, schedulerDbDir>>
  /\ UNCHANGED storeVars

\* kill-pipeline <language>
KillPipeline(i) ==
  /\ cli[i].pc = "kill_pipeline"
  /\ LET out == kill_pipeline(cli[i], cli[i].lang) IN
     /\ cli' = [cli EXCEPT ![i] = [out.c EXCEPT !.pc = "exited",
                  !.report = IF out.found THEN "terminated" ELSE "no_active_pipeline"]]
     /\ children' = children \ out.killed
  /\ UNCHANGED <<contentDir, schedulerDbDir>>
  /\ UNCHANGED storeVars

\* restart_pipeline up to its call of run_pipeline
RestartPipeline(i) ==
  /\ cli[i].pc = "restart_pipeline"
  /\ LET out == kill_pipeline(cli[i], cli[i].lang) IN
     /\ cli' = [cli EXCEPT ![i] = [out.c EXCEPT !.pc = "run_pipeline"]]
     /\ children' = children \ out.killed
  /\ UNCHANGED <<contentDir, schedulerDbDir>>
  /\ UNCHANGED storeVars

\* run_pipeline up to its try block: validate_environment, the
\* already-running check, the registration of the pipeline key.
RunPipelineEnter(i) ==
  /\ cli[i].pc = "run_pipeline"
  /\ LET c == cli[i]
         key == pipeline_key(c.lang)
     IN  IF ~validate_environment
           THEN /\ cli' = [cli EXCEPT ![i] = [c EXCEPT !.pc = "exited",
                                                !.report = "env_invalid"]]
                /\ UNCHANGED schedulerDbDir
         ELSE /\ schedulerDbDir' = TRUE
              /\ IF AlreadyRunning(c.active_pipelines, key)
                   THEN cli' = [cli EXCEPT ![i] = [c EXCEPT !.pc = "exited",
                                                     !.report = "already_running"]]
                   ELSE cli' = [cli EXCEPT ![i] = [c EXCEPT !.pc = "launch", !.k = 1,
                                  !.active_pipelines = Put(@, key, <<>>)]]
  /\ UNCHANGED <<children, contentDir>>
  /\ UNCHANGED storeVars

\* One pass of the stage loop up to process.communicate(): run_agent
\* (subprocess.Popen may raise), the handle and the member registered.
LaunchStage(i) ==
  /\ cli[i].pc = "launch"
  /\ LET c == cli[i]
         key == pipeline_key(c.lang)
         agent_id == PIPELINE[c.k].id
     IN \E started \in BOOLEAN :
          IF ~started THEN                                 \* OSError of Popen
            /\ cli' = [cli EXCEPT ![i] = Raise(c, key, "")]
            /\ UNCHANGED children
          ELSE IF key \notin DOMAIN c.active_pipelines THEN \* KeyError of append
            /\ cli' = [cli EXCEPT ![i] =
                 Raise([c EXCEPT !.active_processes = Put(@, agent_id, Pid(i, c.k)),
                                 !.launched = Append(@, agent_id)], key, "")]
            /\ children' = children \cup {Pid(i, c.k)}
          ELSE
            /\ cli' = [cli EXCEPT ![i] =
                 [c EXCEPT !.pc = "wait",
                           !.active_processes = Put(@, agent_id, Pid(i, c.k)),
                           !.active_pipelines[key] = Append(@, agent_id),
                           !.launched = Append(@, agent_id)]]
            /\ children' = children \cup {Pid(i, c.k)}
  /\ UNCHANGED <<contentDir, schedulerDbDir>>
  /\ UNCHANGED storeVars

\* process.communicate() returns: the stage process exited with returncode.
StageExit(i, returncode) ==
  /\ cli[i].pc = "wait"
  /\ LET c == [cli[i] EXCEPT !.exits = Append(@, returncode)]
         key == pipeline_key(c.lang)
         agent_id == PIPELINE[c.k].id
     IN  /\ children' = children \ {Pid(i, c.k)}
         /\ IF StageFailed(returncode)
              THEN cli' = [cli EXCEPT ![i] = Raise(c, key, PIPELINE[c.k].name)]
            ELSE LET d == [c EXCEPT !.active_processes = Del(@, agent_id)] IN
                 IF c.k < Len(PIPELINE)
                   THEN cli' = [cli EXCEPT ![i] = [d EXCEPT !.pc = "launch", !.k = @ + 1]]
                   ELSE cli' = [cli EXCEPT ![i] = [d EXCEPT !.pc = "exited",
                                  !.report = "completed",
                                  !.active_pipelines = Del(@, key)]]
  /\ UNCHANGED <<contentDir, schedulerDbDir>>
  /\ UNCHANGED storeVars

NoCli ==
  /\ cli = [i \in Cli |-> IdleCli]
  /\ children = {}
  /\ contentDir = TRUE
  /\ schedulerDbDir = TRUE

\* ---- the store protocol: stage processes started at any time
PublisherUniverse ==
  { a \in GoodArtifacts : a.ftype \in {"tweet", "voice"} /\ a.suffix = "abc" }

Init ==
  /\ files \in Listings(PublisherUniverse, MaxShared)
  /\ audio \in SUBSET CompanionKeys(files)
  /\ tableExists = FALSE
  /\ db = <<>>
  /\ delivered = {}
  /\ now = 0
  /\ procs = EmptyBag
  /\ last = NoneEnded
  /\ attempts = ZeroAttempts
  /\ kills = 0
  /\ cap = NProcs
  /\ NoCli

Next ==
  \/ \E l \in SelectableLanguages : SchedStart(l)
  \/ \E r \in Running : SchedCreate(r)
  \/ \E r \in Running : SchedBatch(r)
  \/ \E l \in SelectableLanguages, m \in BOOLEAN : PubStart(l, m)
  \/ \E r \in Running : PubFetch(r)
  \/ \E r \in Running : PubPublish(r)
  \/ \E r \in Running : PubUpdate(r)
  \/ \E r \in Running : Kill(r)

vars == <<storeVars, orchVars>>

Spec == Init /\ [][Next]_vars

\* ---- one stage process at a time, any content store, the clock running
InitSerial ==
  /\ files \in Listings(ArtifactUniverse, MaxFiles)
  /\ audio \in SUBSET CompanionKeys(files)
  /\ tableExists = FALSE
  /\ db = <<>>
  /\ delivered = {}
  /\ now = 0
  /\ procs = EmptyBag
  /\ last = NoneEnded
  /\ attempts = ZeroAttempts
  /\ kills = 0
  /\ cap = 1
  /\ NoCli

NextSerial ==
  \/ \E l \in SelectableLanguages : SchedStart(l)
  \/ \E r \in Running : SchedCreate(r)
  \/ \E r \in Running : SchedBatch(r)
  \/ \E l \in SelectableLanguages, m \in BOOLEAN : PubStart(l, m)
  \/ \E r \in Running : PubFetch(r)
  \/ \E r \in Running : PubPublish(r)
  \/ \E r \in Running : PubUpdate(r)
  \/ \E r \in Running : Kill(r)
  \/ Tick

SpecSerial == InitSerial /\ [][NextSerial]_vars

\* ---- fetch_due_posts on any Scheduling Store, at any time of the clock
FetchRows ==
  { Row("42", "twitter", "tweet", "t", st, status, 0, lang) :
      st \in 0..(strftime(MaxTime) + 1), status \in {"pending"} \cup TERMINAL, lang \in {"en", "hi"} }

\* The tables of at most n rows, the i-th row having post_id i.
Tables(n) ==
  UNION { { [i \in 1..m |-> [t[i] EXCEPT !.post_id = i]] : t \in [1..m -> FetchRows] } :
          m \in 0..n }

InitFetch ==
  /\ files \in Listings({Art("en", "tweet", "42", "twitter", "abc", "object", "42", "twitter", "t")}, 1)
  /\ audio = {}
  /\ tableExists \in BOOLEAN
  /\ db \in IF tableExists THEN Tables(MaxRows) ELSE {<<>>}
  /\ delivered = {}
  /\ now = 0
  /\ procs = EmptyBag
  /\ last = NoneEnded
  /\ attempts = ZeroAttempts
  /\ kills = 0
  /\ cap = 1
  /\ NoCli

PublisherStep == \E r \in Running : PubFetch(r) \/ PubPublish(r) \/ PubUpdate(r)

NextFetch ==
  \/ \E l \in SelectableLanguages, m \in BOOLEAN : PubStart(l, m)
  \/ \E r \in Running : PubFetch(r)
  \/ \E r \in Running : PubPublish(r)
  \/ \E r \in Running : PubUpdate(r)
  \/ Tick

\* A Publisher process that can take a step is given the processor.
SpecFetch == InitFetch /\ [][NextFetch]_vars /\ WF_vars(PublisherStep)

\* ---- command_center.py invocations, at any time, on any environment
InitOrch ==
  /\ cli = [i \in Cli |-> IdleCli]
  /\ children = {}
  /\ contentDir \in BOOLEAN
  /\ schedulerDbDir \in BOOLEAN
  /\ files = <<>>
  /\ audio = {}
  /\ tableExists = FALSE
  /\ db = <<>>
  /\ delivered = {}
  /\ now = 0
  /\ procs = EmptyBag
  /\ last = NoneEnded
  /\ attempts = ZeroAttempts
  /\ kills = 0
  /\ cap = 0

NextOrch ==
  \/ \E i \in Cli, cmd \in PipelineCommands, l \in ALLOWED_LANGUAGES : Command(i, cmd, l)
  \/ \E i \in Cli : KillPipeline(i)
  \/ \E i \in Cli : RestartPipeline(i)
  \/ \E i \in Cli : RunPipelineEnter(i)
  \/ \E i \in Cli : LaunchStage(i)
  \/ \E i \in Cli, rc \in ExitCodes : StageExit(i, rc)

SpecOrch == InitOrch /\ [][NextOrch]_vars

\* ---- pipelines at their Scheduler and Publisher stages, on the shared store
\* The stages of PIPELINE whose process works on the Scheduling Store.
StoreStages == {"scheduler", "publisher_sim"}

StageOf(agent_id) == CHOOSE k \in DOMAIN PIPELINE : PIPELINE[k].id = agent_id

Stage(i) == PIPELINE[cli[i].k].id

\* run_pipeline(language) after the stages before the Scheduler have exited
\* with code 0: the key registered, the members appended, no handle left.
AtScheduler(language) ==
  LET before == [k \in 1..(StageOf("scheduler") - 1) |-> PIPELINE[k].id] IN
  [IdleCli EXCEPT !.cmd = "run-pipeline", !.lang = language, !.pc = "launch",
                  !.k = StageOf("scheduler"),
                  !.active_pipelines = Put(<<>>, pipeline_key(language), before),
                  !.launched = before,
                  !.exits = [k \in DOMAIN before |-> 0]]

\* Invocation i is between the launch of its Scheduler and the exit of its
\* Publisher.
InPair(i) ==
  /\ cli[i].pc \in {"launch", "wait"}
  /\ Stage(i) \in StoreStages
  /\ ~(Stage(i) = "scheduler" /\ cli[i].pc = "launch")

\* The stage process of invocation i: run_agent passes the pipeline's language.
StageProcess(i, r) ==
  /\ r.lang = cli[i].lang
  /\ r.kind = IF Stage(i) = "scheduler" THEN "sched" ELSE "pub"

\* The exit code of a stage process: an exception that leaves main() gives 1.
returncode(ended) == IF ended.result = "error" THEN 1 ELSE 0

\* One pipeline per language, each about to launch its Scheduler; cap is the
\* number of pipelines the operator lets into their Scheduler and Publisher
\* stages at the same time (1: one after the other).
InitPipe ==
  /\ cli = [i \in Cli |-> AtScheduler(LANGUAGES[i])]
  /\ children = {}
  /\ contentDir = TRUE
  /\ schedulerDbDir = TRUE
  /\ files \in Listings(PublisherUniverse, MaxFiles)
  /\ audio \in SUBSET CompanionKeys(files)
  /\ tableExists = FALSE
  /\ db = <<>>
  /\ delivered = {}
  /\ now = 0
  /\ procs = EmptyBag
  /\ last = NoneEnded
  /\ attempts = ZeroAttempts
  /\ kills = 0
  /\ cap \in {1, NProcs}

\* The stage loop of run_pipeline at the Scheduler or the Publisher stage:
\* the process is started (it runs on the store), the handle and the member
\* are registered.
PipeLaunch(i) ==
  /\ cli[i].pc = "launch"
  /\ Stage(i) \in StoreStages
  /\ Stage(i) = "scheduler" => Cardinality({ j \in Cli : InPair(j) }) < cap
  /\ LET c == cli[i]
         key == pipeline_key(c.lang)
         agent_id == PIPELINE[c.k].id
     IN /\ cli' = [cli EXCEPT ![i] =
                 [c EXCEPT !.pc = "wait",
                           !.active_processes = Put(@, agent_id, Pid(i, c.k)),
                           !.active_pipelines[key] = Append(@, agent_id),
                           !.launched = Append(@, agent_id)]]
        /\ children' = children \cup {Pid(i, c.k)}
        /\ IF agent_id = "scheduler" THEN SchedProcess(c.lang)
                                     ELSE PubProcess(c.lang, FALSE)
  /\ UNCHANGED <<contentDir, schedulerDbDir>>

\* process.communicate() returns once the stage process has ended.
PipeExit(i) ==
  /\ cli[i].pc = "wait"
  /\ Stage(i) \in StoreStages
  /\ ~ \E r \in Running : StageProcess(i, r)
  /\ StageProcess(i, last)
  /\ StageExit(i, returncode(last))

\* The stages that do not touch the Scheduling Store.
OtherLaunch(i) == Stage(i) \notin StoreStages /\ LaunchStage(i)

OtherExit(i, rc) == Stage(i) \notin StoreStages /\ StageExit(i, rc)

NextPipe ==
  \/ \E i \in Cli : PipeLaunch(i)
  \/ \E i \in Cli : PipeExit(i)
  \/ \E i \in Cli : OtherLaunch(i)
  \/ \E i \in Cli, rc \in ExitCodes : OtherExit(i, rc)
  \/ \E r \in Running : SchedCreate(r)
  \/ \E r \in Running : SchedBatch(r)
  \/ \E r \in Running : PubFetch(r)
  \/ \E r \in Running : PubPublish(r)
  \/ \E r \in Running : PubUpdate(r)

SpecPipe == InitPipe /\ [][NextPipe]_vars

\* ---- the commands on one stage: run, restart, kill, list
AgentCommands == {"run", "restart", "kill", "list"}

\* The keys of AGENTS.
AGENTS == { PIPELINE[k].id : k \in DOMAIN PIPELINE }

\* The stages named on the command line.
AgentInputs == {"sentiment_tuner", "scheduler"}

\* main(): the command and its <agent> argument are read and checked.
AgentCommand(i, cmd, agent) ==
  /\ cli[i].pc = "idle"
  /\ agent \in AGENTS
  /\ cli' = [cli EXCEPT ![i] = [@ EXCEPT !.cmd = cmd, !.agent = agent,
               !.pc = CASE cmd = "run" -> "run_agent"
                        [] cmd = "restart" -> "restart_agent"
                        [] cmd = "kill" -> "kill_process"
                        [] cmd = "list" -> "list_agents"]]
  /\ UNCHANGED <<children, contentDir, schedulerDbDir>>
  /\ UNCHANGED storeVars

\* run <agent>, and restart_agent after its kill: run_agent starts the
\* process (subprocess.Popen may raise) and returns it; the caller drops it.
RunAgent(i) ==
  /\ cli[i].pc = "run_agent"
  /\ \E started \in BOOLEAN :
       IF started
         THEN /\ children' = children \cup {Pid(i, StageOf(cli[i].agent))}
              /\ cli' = [cli EXCEPT ![i] = [@ EXCEPT !.pc = "exited", !.report = "started",
                                                     !.launched = Append(@, cli[i].agent)]]
         ELSE /\ cli' = [cli EXCEPT ![i] = [@ EXCEPT !.pc = "exited", !.report = "failed"]]
              /\ UNCHANGED children
  /\ UNCHANGED <<contentDir, schedulerDbDir>>
  /\ UNCHANGED storeVars

\* kill_process up to process.wait: `if agent not in active_processes`
\* returns; process.terminate() sends the signal or raises, which is logged.
KillTerminate(i) ==
  /\ cli[i].pc \in {"kill_process", "restart_kill"}
  /\ LET c == cli[i]
         after == IF c.pc = "restart_kill" THEN "run_agent" ELSE "exited"
     IN  IF c.agent \notin DOMAIN c.active_processes
           THEN cli' = [cli EXCEPT ![i] = [c EXCEPT !.pc = after,
                                                    !.report = "no_active_process"]]
         ELSE \E sent \in BOOLEAN :
           IF sent
             THEN cli' = [cli EXCEPT ![i] = [c EXCEPT !.pc = "kill_wait",
                                                      !.signals = Append(@, "terminate")]]
             ELSE cli' = [cli EXCEPT ![i] = [c EXCEPT !.pc = after,
                            !.report = "error_killing",
                            !.active_processes = Del(@, c.agent)]]
  /\ UNCHANGED <<children, contentDir, schedulerDbDir>>
  /\ UNCHANGED storeVars

\* process.wait(timeout=5): the process has gone in time, or TimeoutExpired
\* and process.kill(); `finally` removes the handle.
KillWait(i) ==
  /\ cli[i].pc = "kill_wait"
  /\ LET c == cli[i]
         process == c.active_processes[c.agent]
         after == IF c.cmd = "restart" THEN "run_agent" ELSE "exited"
     IN  /\ children' = children \ {process}
         /\ \E in_time \in BOOLEAN :
              IF in_time \/ process \notin children
                THEN cli' = [cli EXCEPT ![i] = [c EXCEPT !.pc = after,
                               !.report = "terminated",
                               !.active_processes = Del(@, c.agent)]]
                ELSE cli' = [cli EXCEPT ![i] = [c EXCEPT !.pc = after,
                               !.report = "forcefully_killed",
                               !.signals = Append(@, "kill"),
                               !.active_processes = Del(@, c.agent)]]
  /\ UNCHANGED <<contentDir, schedulerDbDir>>
  /\ UNCHANGED storeVars

\* restart_agent: kill_process if the stage is tracked, then run_agent.
RestartAgent(i) ==
  /\ cli[i].pc = "restart_agent"
  /\ cli' = [cli EXCEPT ![i] = [@ EXCEPT !.pc =
               IF cli[i].agent \in DOMAIN cli[i].active_processes
                 THEN "restart_kill" ELSE "run_agent"]]
  /\ UNCHANGED <<children, contentDir, schedulerDbDir>>
  /\ UNCHANGED storeVars

\* list_agents: the stages reported RUNNING.
ListAgents(i) ==
  /\ cli[i].pc = "list_agents"
  /\ cli' = [cli EXCEPT ![i] = [@ EXCEPT !.pc = "exited", !.report = "listed",
               !.listed = { a \in AGENTS : a \in DOMAIN cli[i].active_processes }]]
  /\ UNCHANGED <<children, contentDir, schedulerDbDir>>
  /\ UNCHANGED storeVars

\* A stage process ends of itself.
ChildEnds(p) ==
  /\ p \in children
  /\ children' = children \ {p}
  /\ UNCHANGED <<cli, contentDir, schedulerDbDir>>
  /\ UNCHANGED storeVars

\* Invocations of command_center.py, each with its own empty maps: no
\* kill_process call of theirs finds a handle, none comes to process.wait.
NextAgent ==
  \/ \E i \in Cli, cmd \in AgentCommands, a \in AgentInputs : AgentCommand(i, cmd, a)
  \/ \E i \in Cli : RunAgent(i)
  \/ \E i \in Cli : RestartAgent(i)
  \/ \E i \in Cli : KillTerminate(i)
  \/ \E i \in Cli : ListAgents(i)
  \/ \E p \in children : ChildEnds(p)

SpecAgent == InitOrch /\ [][NextAgent]_vars

NextKill ==
  \/ \E i \in Cli, cmd \in AgentCommands, a \in AgentInputs : AgentCommand(i, cmd, a)
  \/ \E i \in Cli : RunAgent(i)
  \/ \E i \in Cli : RestartAgent(i)
  \/ \E i \in Cli : KillTerminate(i)
  \/ \E i \in Cli : KillWait(i)
  \/ \E i \in Cli : ListAgents(i)
  \/ \E p \in children : ChildEnds(p)

\* kill_process, restart_agent and list_agents on any active_processes: the
\* handles of some stages, their processes alive or gone.
Handles(i) ==
  { [a \in S |-> Pid(i, StageOf(a))] : S \in SUBSET AgentInputs }

InitKill ==
  /\ cli \in { c \in [Cli -> { [IdleCli EXCEPT !.active_processes = h] :
                                  h \in UNION { Handles(i) : i \in Cli } }] :
               \A i \in Cli : c[i].active_processes \in Handles(i) }
  /\ children \in SUBSET UNION { { cli[i].active_processes[a] :
                                     a \in DOMAIN cli[i].active_processes } : i \in Cli }
  /\ contentDir = TRUE
  /\ schedulerDbDir = TRUE
  /\ files = <<>>
  /\ audio = {}
  /\ tableExists = FALSE
  /\ db = <<>>
  /\ delivered = {}
  /\ now = 0
  /\ procs = EmptyBag
  /\ last = NoneEnded
  /\ attempts = ZeroAttempts
  /\ kills = 0
  /\ cap = 0

SpecKill == InitKill /\ [][NextKill]_vars

\* ---- run_pipeline, kill_pipeline and kill_process on any two maps
\* The language and the stage of the drawn entries.
ControlLanguages == {"en"}

TrackedStage == "sentiment_tuner"

\* The maps of invocation i when a control function is called: a pipeline of
\* ControlLanguages registered with the stages up to TrackedStage or none, the
\* handle of TrackedStage registered or none.
Maps(i) ==
  { [IdleCli EXCEPT !.active_pipelines = p, !.active_processes = h] :
      p \in {<<>>} \cup { Put(<<>>, pipeline_key(l),
                                [k \in 1..StageOf(TrackedStage) |-> PIPELINE[k].id]) :
                            l \in ControlLanguages },
      h \in {<<>>, Put(<<>>, TrackedStage, Pid(i, StageOf(TrackedStage)))} }

InitControl ==
  /\ cli \in { c \in [Cli -> UNION { Maps(i) : i \in Cli }] :
               \A i \in Cli : c[i] \in Maps(i) }
  /\ children \in SUBSET UNION { { cli[i].active_processes[a] :
                                     a \in DOMAIN cli[i].active_processes } : i \in Cli }
  /\ contentDir = TRUE
  /\ schedulerDbDir = TRUE
  /\ files = <<>>
  /\ audio = {}
  /\ tableExists = FALSE
  /\ db = <<>>
  /\ delivered = {}
  /\ now = 0
  /\ procs = EmptyBag
  /\ last = NoneEnded
  /\ attempts = ZeroAttempts
  /\ kills = 0
  /\ cap = 0

NextControl ==
  \/ \E i \in Cli, cmd \in PipelineCommands, l \in ControlLanguages : Command(i, cmd, l)
  \/ \E i \in Cli, a \in AgentInputs : AgentCommand(i, "kill", a)
  \/ \E i \in Cli : KillPipeline(i)
  \/ \E i \in Cli : RestartPipeline(i)
  \/ \E i \in Cli : RunPipelineEnter(i)
  \/ \E i \in Cli : LaunchStage(i)
  \/ \E i \in Cli, rc \in ExitCodes : StageExit(i, rc)
  \/ \E i \in Cli : KillTerminate(i)
  \/ \E i \in Cli : KillWait(i)

SpecControl == InitControl /\ [][NextControl]_vars

\* ---- publish_content on one pending record of any platform, its artifact
\* in place
\* The platforms a record is given: those publish_to_platform knows and one
\* it does not.
PlatformInputs == KNOWN_PLATFORMS \cup {"facebook"}

PublishInputs ==
  { [lang |-> l, ct |-> ct, pf |-> pf] :
      l \in {"en", "hi"}, ct \in {"tweet", "post", "voice"}, pf \in PlatformInputs }

InitPublish ==
  /\ \E x \in PublishInputs :
       /\ files = <<Art(x.lang, x.ct, "42", x.pf, "abc", "object", "42", x.pf, "t")>>
       /\ db = <<Row("42", x.pf, x.ct, "t", strftime(0 - timedelta(BackdateHours)),
                     "pending", 1, x.lang)>>
  /\ audio \in SUBSET CompanionKeys(files)
  /\ tableExists = TRUE
  /\ delivered = {}
  /\ now = 0
  /\ procs = EmptyBag
  /\ last = NoneEnded
  /\ attempts = ZeroAttempts
  /\ kills = 0
  /\ cap = 1
  /\ NoCli

NextPublish ==
  \/ \E l \in SelectableLanguages, m \in BOOLEAN : PubStart(l, m)
  \/ \E r \in Running : PubFetch(r)
  \/ \E r \in Running : PubPublish(r)
  \/ \E r \in Running : PubUpdate(r)

SpecPublish == InitPublish /\ [][NextPublish]_vars

\* ---- format_content and publish_to_platform on a content text of any length
\* A text is the sequence of its characters (code points).  The text of n
\* characters whose i-th character is a character of its own.
Text(n) == [i \in 1..n |-> 1000 + i]

\* "\n#Inspiration #Multilingual"
Hashtags ==
  <<10, 35, 73, 110, 115, 112, 105, 114, 97, 116, 105, 111, 110, 32,
    35, 77, 117, 108, 116, 105, 108, 105, 110, 103, 117, 97, 108>>

\* s[:n]
Prefix(s, n) == SubSeq(s, 1, IF Len(s) < n THEN Len(s) ELSE n)

\* format_content: post_data; it has no 'content' for a platform that is
\* none of the four.
format_content(content, content_type, platform, lang) ==
  LET content_text == content.text
      post_data == [post_id |-> 0, content_id |-> content.id, platform |-> platform,
                    language |-> lang, status |-> "pending"]
      With(content_value) ==
        [k \in DOMAIN post_data \cup {"content"} |->
           IF k = "content" THEN content_value ELSE post_data[k]]
  IN  CASE platform = "instagram" -> With(content_text \o Hashtags)
        [] platform = "twitter" ->
             With(IF content_type = "tweet" THEN Prefix(content_text, TweetLimit)
                                            ELSE content_text)
        [] platform = "linkedin" ->
             With([title |-> <<"Multilingual Insight", content.id>>,
                   summary |-> content_text])
        [] platform = "sanatan" -> With(content_text)
        [] OTHER -> post_data

InitFormat ==
  /\ files \in { <<Art("en", ct, "42", platforms(ct)[1], "abc", "object", "42",
                       platforms(ct)[1], Text(n))>> :
                  ct \in Range(CONTENT_TYPES), n \in 0..MaxText }
  /\ audio = {}
  /\ tableExists = FALSE
  /\ db = <<>>
  /\ delivered = {}
  /\ now = 0
  /\ procs = EmptyBag
  /\ last = NoneEnded
  /\ attempts = ZeroAttempts
  /\ kills = 0
  /\ cap = 0
  /\ NoCli

\* publish_to_platform(platform, content, content_type, ...): post_data is
\* built, given its status and written to SCHEDULED_POSTS_DIR; nothing is
\* written when post_data['content'] raises.
PublishText(platform, preview_mode) ==
  /\ delivered = {}
  /\ LET content == files[1]
         post_data == format_content(content, content.ftype, platform, content.lang)
         out == publish_to_platform(platform, content, preview_mode)
     IN  delivered' = IF "content" \in DOMAIN post_data
                        THEN {[post_data EXCEPT !.status = out.status]}
                        ELSE delivered
  /\ UNCHANGED <<files, audio, tableExists, db, now, procs, last, attempts, kills, cap>>
  /\ UNCHANGED orchVars

NextFormat == \E pf \in PlatformInputs, m \in BOOLEAN : PublishText(pf, m)

SpecFormat == InitFormat /\ [][NextFormat]_vars

\* ================================================================== properties
\* ---- C1
\* A PipelineRun is active in invocation i for language l.
RunsPipeline(i, l) ==
  /\ cli[i].pc \in {"launch", "wait"}
  /\ pipeline_key(l) \in DOMAIN cli[i].active_pipelines

\* C1: at any time at most one PipelineRun is active per language: no two
\* run-pipeline invocations are running a pipeline for the same language.
C1_OneRunPerLanguage ==
  \A i, j \in Cli : \A l \in ALLOWED_LANGUAGES :
    RunsPipeline(i, l) /\ RunsPipeline(j, l) => i = j

\* ---- C2
\* C2: if the k-th stage of PIPELINE exits with a non-zero code, the run
\* launched exactly the stages 1..k, in order, none of k+1..n is launched or
\* alive, and the run ended with the failure report naming stage k.
C2_FailFast ==
  \A i \in Cli : \A k \in DOMAIN cli[i].exits :
    cli[i].exits[k] # 0 =>
      /\ cli[i].launched = [j \in 1..k |-> PIPELINE[j].id]
      /\ \A j \in (k + 1)..Len(PIPELINE) : Pid(i, j) \notin children
      /\ cli[i].pc = "exited"
      /\ cli[i].report = "failed"
      /\ cli[i].failed_at = PIPELINE[k].name

\* A run whose third stage exited with a non-zero code.
C2_ThirdStageFailed ==
  \E i \in Cli : Len(cli[i].exits) = 3 /\ cli[i].exits[3] # 0

\* ---- C3
\* C3: terminal statuses are absorbing: no step changes the status of a record
\* that is published, failed or preview, as long as the record is in the store.
C3_TerminalAbsorbing ==
  [][\A i \in DOMAIN db \cap DOMAIN db' :
       (db'[i].post_id = db[i].post_id /\ db[i].status \in TERMINAL)
         => db'[i].status = db[i].status]_vars

\* ---- C4
\* C4: between two resets each post_id is attempted for delivery at most once,
\* all Publisher invocations counted.
C4_AtMostOneAttempt == \A id \in PostIds : attempts[id] <= 1

\* ---- C5
\* C5: no two records of the Scheduling Store have the same post_id.
C5_UniquePostIds ==
  \A i, j \in DOMAIN db : db[i].post_id = db[j].post_id => i = j

\* A Scheduler run that left two records.
C5_TwoRecords ==
  Len(db) >= 2 /\ last.kind = "sched" /\ last.result = "completed"

\* ---- C6
\* The rows a fetch for language at time t is to return: scheduled_time is
\* in seconds, t in ticks of the clock.
DueIndexes(language, t) ==
  { i \in DOMAIN db :
      /\ db[i].status \notin TERMINAL
      /\ ~(db[i].scheduled_time * TicksPerSecond > t)
      /\ (language = "all" \/ db[i].lang = language) }

\* C6: a fetch_due_posts(language) call returns exactly the records that are
\* pending, scheduled at or before the time of the call and, unless language
\* is 'all', of that language: each of them once and nothing else.
C6_FetchExact ==
  [][\A r \in Running : PubFetch(r) =>
       LET due == DueIndexes(r.lang, now) IN
       IF due = {}
         THEN \A r2 \in BagToSet(procs') : r2.pc # "publish"
         ELSE \E r2 \in BagToSet(procs') :
                /\ r2.pc = "publish"
                /\ Len(r2.batch) = Cardinality(due)
                /\ \A i \in due : \E n \in DOMAIN r2.batch :
                     /\ r2.batch[n].post_id = db[i].post_id
                     /\ r2.batch[n].content_id = db[i].content_id
                     /\ r2.batch[n].platform = db[i].platform
                     /\ r2.batch[n].content_type = db[i].content_type
                     /\ r2.batch[n].lang = db[i].lang]_vars

\* A fetch that returned one of two records, the other being pending and
\* scheduled in the future.
C6_FutureRowLeftOut ==
  /\ Len(db) = 2
  /\ \E i \in DOMAIN db :
       db[i].status = "pending" /\ db[i].scheduled_time * TicksPerSecond > now
  /\ \E r \in Running : r.pc = "publish" /\ r.idx = 1 /\ Len(r.batch) = 1

\* ---- C7
\* The artifacts that declare platform pf for content id of type ct in lang.
Declaring(lang, ct, id, pf) ==
  { n \in DOMAIN files :
      /\ files[n].kind = "object"
      /\ files[n].lang = lang /\ files[n].ftype = ct
      /\ files[n].id = id /\ files[n].platform = pf }

RecordsOf(lang, ct, id, pf) ==
  { i \in DOMAIN db :
      /\ db[i].lang = lang /\ db[i].content_type = ct
      /\ db[i].content_id = id /\ db[i].platform = pf }

\* C7: no record is created for an artifact whose declared platform differs
\* from the platform being scheduled: the records of a platform are no more
\* than the artifacts declaring that platform.
C7_NoRecordForOtherPlatform ==
  \A i \in DOMAIN db :
    LET r == db[i] IN
    Cardinality(RecordsOf(r.lang, r.content_type, r.content_id, r.platform))
      <= Cardinality(Declaring(r.lang, r.content_type, r.content_id, r.platform))

\* A completed Scheduler run over a post artifact named for instagram and
\* declaring linkedin: offered to both platforms, recorded for linkedin only.
C7_MismatchSkipped ==
  /\ last.kind = "sched" /\ last.result = "completed"
  /\ \E f \in Range(files) :
       /\ f.ftype = "post" /\ f.fplat = "instagram" /\ f.platform = "linkedin"
       /\ RecordsOf(f.lang, "post", f.id, "linkedin") # {}
       /\ RecordsOf(f.lang, "post", f.id, "instagram") = {}

\* ---- C8
\* Valid artifacts: a JSON object with id, platform and text.
Valid(f) == f.kind = "object" /\ f.id # "" /\ f.platform # "" /\ f.text # ""

\* C8: a completed Scheduler run (no uuid collision) has created exactly one
\* pending record for each valid artifact of its directories whose declared
\* platform is scanned for its content type.
C8_OneRecordPerValidArtifact ==
  (last.kind = "sched" /\ last.result = "completed"
     /\ "IntegrityError" \notin last.errors) =>
  \A f \in Range(files) :
    (/\ Valid(f)
     /\ f.lang \in Range(dirs_to_process(last.lang))
     /\ f.platform \in Range(platforms(f.ftype))) =>
    Cardinality({ i \in RecordsOf(f.lang, f.ftype, f.id, f.platform) :
                    db[i].status = "pending" })
      = Cardinality({ n \in Declaring(f.lang, f.ftype, f.id, f.platform) :
                        files[n].platform \in Range(platforms(f.ftype)) })

\* ---- C9
\* C9: a voice record for sanatan whose companion audio is absent is never
\* published or preview, and is failed once it was attempted.
C9_VoiceWithoutAudioFails ==
  \A i \in DOMAIN db :
    (/\ db[i].content_type = "voice" /\ db[i].platform = "sanatan"
     /\ [lang |-> db[i].lang, id |-> db[i].content_id, platform |-> "sanatan"] \notin audio) =>
      /\ db[i].status \in {"pending", "failed"}
      /\ (attempts[db[i].post_id] > 0 => db[i].status = "failed")

\* A voice record without companion audio that a Publisher attempted.
C9_VoiceAttempted ==
  \E i \in DOMAIN db :
    /\ db[i].content_type = "voice" /\ db[i].platform = "sanatan"
    /\ [lang |-> db[i].lang, id |-> db[i].content_id, platform |-> "sanatan"] \notin audio
    /\ attempts[db[i].post_id] > 0

\* ---- C10
\* C10: a Publisher run that found no due post in any round made MaxAttempts
\* fetch rounds, slept between consecutive rounds only, updated no record,
\* logged no error and reported that no posts were processed; and every
\* Publisher run ends.
C10_EmptyRun ==
  /\ [](last.kind = "pub" /\ last.result = "no_posts_processed" =>
          /\ last.rounds = MaxAttempts
          /\ last.sleeps = MaxAttempts - 1
          /\ last.writes = 0
          /\ last.errors = {})
  /\ [][\A r \in Running : PubFetch(r) => db' = db]_vars
  /\ ((\E r \in Running : r.kind = "pub") ~> (procs = EmptyBag))

\* A Publisher run ended with no posts processed, records in the store.
C10_NoPostsProcessed ==
  last.kind = "pub" /\ last.result = "no_posts_processed" /\ db # <<>>

\* ---- C11
\* The process states a step brings about.
NewStates == { x \in DOMAIN procs' : CopiesIn(x, procs') > CopiesIn(x, procs) }

\* C11: a Publisher invocation makes at most MaxAttempts fetch rounds; once a
\* round returned a batch it works through that batch post by post, never
\* fetches again, and ends only after the last post of the batch.
C11_OneBatch ==
  /\ [](\A r \in Running :
          r.kind = "pub" /\ r.pc = "fetch" => r.attempt \in 1..MaxAttempts)
  /\ [][\A r \in Running : PubFetch(r) =>
          \A x \in NewStates :
            \/ x.pc = "fetch" /\ x.attempt = r.attempt + 1
            \/ x.pc = "publish" /\ x.idx = 1 /\ x.batch # <<>>]_vars
  /\ [][\A r \in Running : (PubPublish(r) \/ PubUpdate(r)) =>
          /\ \A x \in NewStates :
               /\ x.pc \in {"publish", "update"}
               /\ x.batch = r.batch
               /\ x.idx = IF x.pc = "update" THEN r.idx ELSE r.idx + 1
               /\ x.idx <= Len(r.batch)
          /\ (NewStates = {} => r.idx = Len(r.batch) /\ last'.result = "processed")]_vars

\* A Publisher run that ended after the second post of its batch.
C11_BatchOfTwoProcessed ==
  last.kind = "pub" /\ last.result = "processed" /\ last.writes = 2

\* ---- C12
\* The stage processes that invocation i started and that are alive.
OwnChildren(i) == { p \in children : p[1] = i }

\* C12: after kill-pipeline for a language whose pipeline is active, every
\* stage process of that pipeline is terminated and the pipeline is no
\* longer registered as active.
C12_KillPipelineKills ==
  [][\A j \in Cli : KillPipeline(j) =>
       \A i \in Cli : RunsPipeline(i, cli[j].lang) =>
         /\ { p \in children' : p[1] = i } = {}
         /\ pipeline_key(cli[j].lang) \notin DOMAIN cli'[i].active_pipelines]_vars

C14_NoHandleLeft ==
  \A i \in Cli : cli[i].pc = "exited" => DOMAIN cli[i].active_processes = {}

\* ---- C15
\* C15: however run_pipeline ended (completed, stage failed, stage not
\* launched), the pipeline key is no longer registered; and no run_pipeline
\* call is refused as already running after it.
C15_KeyRemovedAtEnd ==
  \A i \in Cli :
    /\ cli[i].pc = "exited" => DOMAIN cli[i].active_pipelines = {}
    /\ cli[i].report # "already_running"

\* One run ended because a stage could not be launched, one because a stage
\* failed.
C15_EndedBothWays ==
  \E i, j \in Cli :
    /\ cli[i].pc = "exited" /\ cli[i].report = "failed" /\ cli[i].launched = <<>>
    /\ cli[j].pc = "exited" /\ cli[j].report = "failed" /\ cli[j].exits # <<>>
    /\ cli[i].lang = cli[j].lang

\* ---- C16
\* C16: every Scheduler run begins with the reset, the store is empty right
\* after it, and the records present later were all inserted later, by a
\* schedule_content call that leaves the records it finds in place.
C16_ResetFirst ==
  /\ [][\A x \in NewStates : x.kind = "sched" =>
          \/ x.pc = "create" /\ db' = <<>> /\ ~tableExists'
          \/ x.pc = "schedule" /\ \E r \in Running :
               r.kind = "sched" /\ (SchedCreate(r) \/ SchedBatch(r))]_vars
  /\ [][db' # db /\ db' # <<>> =>
          /\ Len(db') >= Len(db)
          /\ \A i \in DOMAIN db : db'[i].post_id = db[i].post_id
          /\ (Len(db') > Len(db) => \E r \in Running : SchedBatch(r))]_vars

\* A reset has deleted a record that had been delivered, and the store is
\* empty.
C16_DeliveredRecordDeleted ==
  /\ db = <<>>
  /\ \E d \in delivered : d.post_id = 0
  /\ \E r \in Running : r.kind = "sched" /\ r.pc = "create"

\* ---- C17
\* A delivery record status that reflects the status of the ScheduledPost.
Agrees(record_status, post_status) ==
  \/ record_status = "success" /\ post_status = "published"
  \/ record_status = "preview" /\ post_status = "preview"
  \/ record_status = "failed"  /\ post_status = "failed"

RowsOf(table, post) == { i \in DOMAIN table : table[i].post_id = post.post_id }

\* The rows of a fetched post as the Publisher knows it: the batch holds
\* (content_id, platform, content_type, lang), not the post_id.
FetchedAs(table, post) ==
  { i \in DOMAIN table : /\ table[i].content_id = post.content_id
                         /\ table[i].platform = post.platform
                         /\ table[i].lang = post.lang }

StoreErrors == {"IntegrityError", "OperationalError"}

\* C19: a Scheduler run in which a store-level error was raised, in the reset
\* or in schedule_content, goes no further and ends with an error.
C19_StoreErrorAborts ==
  /\ \A r \in Running : r.kind = "sched" => r.errors \cap StoreErrors = {}
  /\ (last.kind = "sched" /\ last.errors \cap StoreErrors # {}) => last.result = "error"

\* ---- C20
\* The directory loop of run_scheduler over the listing fs from call pos on,
\* no two uuid4 draws being equal: the table it leaves.
RECURSIVE run_scheduler(_, _, _, _)
run_scheduler(fs, plan, pos, table) ==
  IF pos > Len(plan) THEN table
  ELSE
    LET cf  == content_files(fs, plan[pos].lang, plan[pos].ct)
        out == schedule_content(cf, [i \in 1..Len(cf) |-> 0], plan[pos].pf,
                                plan[pos].ct, plan[pos].lang, 0, table)
    IN  IF out.err = ""
          THEN run_scheduler(fs, plan, pos + 1, table \o out.rows)
          ELSE run_scheduler(fs, plan, NextDir(pos), table)

\* Malformed or incomplete artifacts: not JSON, not a JSON object, id or
\* platform missing.
Bad(f) == f.kind \in {"invalid", "array"} \/ f.id = "" \/ f.platform = ""

\* The ScheduledPosts of a table, post_id, time and status left aside.
Posts(table) ==
  [ i \in DOMAIN table |->
      <<table[i].lang, table[i].content_type, table[i].content_id,
        table[i].platform, table[i].content>> ]

\* C20: the ScheduledPosts a completed Scheduler run (no uuid collision) has
\* created are those a run creates over the same directories with the
\* malformed and incomplete artifacts removed.
C20_BadArtifactOnlySkipped ==
  (last.kind = "sched" /\ last.result = "completed"
     /\ "IntegrityError" \notin last.errors) =>
  Posts(db) = Posts(run_scheduler(SelectSeq(files, LAMBDA f : ~Bad(f)),
                                  Plan(last.lang), 1, <<>>))

\* ---- C21
\* The concrete languages: ALLOWED_LANGUAGES without the wildcard.
ConcreteLanguages == ALLOWED_LANGUAGES \ {"all"}

\* C21: the language 'all' is expanded before a pipeline is registered: every
\* PipelineRun entry is that of one concrete language (en, hi, sa).
C21_AllExpands ==
  \A i \in Cli : \A key \in DOMAIN cli[i].active_pipelines :
    key \in { pipeline_key(l) : l \in ConcreteLanguages }

\* ---- C22
\* The records of a language in the Scheduling Store.
RowsIn(table, lang) == { i \in DOMAIN table : table[i].lang = lang }

\* The Publisher stage of invocation i has exited with code 0.
PublisherDone(i) ==
  /\ Len(cli[i].exits) >= StageOf("publisher_sim")
  /\ cli[i].exits[StageOf("publisher_sim")] = 0

\* C22: when the pipelines pass their Scheduler and Publisher stages one
\* after the other, no reset deletes a record that has not reached a terminal
\* status, the fetch of a pipeline's Publisher returns every record of its
\* language, and once that Publisher has exited every record of the
\* language is terminal.
C22_SerialPairsSafe ==
  /\ [][(cap = 1 /\ db' = <<>>) =>
          \A n \in DOMAIN db : db[n].status \in TERMINAL]_vars
  /\ [][cap = 1 =>
          \A r \in Running : (PubFetch(r) /\ RowsIn(db, r.lang) # {}) =>
            \E x \in NewStates :
              /\ x.kind = "pub" /\ x.pc = "publish"
              /\ { db[n].post_id : n \in RowsIn(db, r.lang) }
                   = { x.batch[k].post_id : k \in DOMAIN x.batch }]_vars
  /\ [](cap = 1 =>
          \A i \in Cli : PublisherDone(i) =>
            \A n \in RowsIn(db, cli[i].lang) : db[n].status \in TERMINAL)

\* Interleaved pipelines: the Scheduler of pipeline a has exited with code 0
\* having a valid artifact of its language to record, the Scheduler of
\* pipeline b has since reset the store and recorded nothing yet, and the
\* Publisher of pipeline a has fetched an empty batch.
C22_RecordsLostToReset ==
  \E a, b \in Cli :
    /\ a # b
    /\ cap = NProcs
    /\ Stage(a) = "publisher_sim" /\ cli[a].pc = "wait"
    /\ cli[a].exits[StageOf("scheduler")] = 0
    /\ \E f \in Range(files) : f.lang = cli[a].lang
    /\ \E r \in Running : r.kind = "pub" /\ r.lang = cli[a].lang
                          /\ r.pc = "fetch" /\ r.attempt > 1
    /\ Stage(b) = "scheduler" /\ cli[b].pc = "wait"
    /\ \E r \in Running : r.kind = "sched" /\ r.lang = cli[b].lang /\ r.pc = "create"
    /\ db = <<>>

\* ---- C23
\* C23: the stages a pipeline has launched are the first stages of PIPELINE in
\* its order, each stage but the first was launched after the stage before it
\* had exited with code 0, and at most one stage process of the pipeline is
\* alive.
C23_StagesInOrder ==
  \A i \in Cli :
    LET launched == cli[i].launched
        exits == cli[i].exits
    IN  /\ Len(launched) <= Len(PIPELINE)
        /\ \A k \in DOMAIN launched : launched[k] = PIPELINE[k].id
        /\ \A k \in DOMAIN launched :
             k > 1 => (k - 1 \in DOMAIN exits /\ exits[k - 1] = 0)
        /\ Len(exits) \in {Len(launched) - 1, Len(launched)}
        /\ Cardinality(OwnChildren(i)) <= 1
        /\ OwnChildren(i) # {} => Len(exits) = Len(launched) - 1

\* A pipeline that has run all its stages.
C23_AllStagesRun ==
  \E i \in Cli :
    /\ cli[i].report = "completed"
    /\ Len(cli[i].launched) = Len(PIPELINE)
    /\ Len(cli[i].exits) = Len(PIPELINE)

\* ---- C24
\* C24: every record of the store has a scheduled_time earlier than the time
\* it was created at (and so than the present), and a fetch for its language
\* or for 'all' returns every pending record, whatever the time of the call.
C24_ImmediatelyDue ==
  /\ [](\A n \in DOMAIN db : db[n].scheduled_time * TicksPerSecond < now)
  /\ [][\A r \in Running : SchedBatch(r) =>
          \A n \in DOMAIN db' \ DOMAIN db :
            /\ db'[n].scheduled_time * TicksPerSecond < now
            /\ db'[n].scheduled_time = strftime(now) - BackdateHours * 3600]_vars
  /\ [][\A r \in Running : PubFetch(r) =>
          LET pending == { n \in DOMAIN db :
                             /\ db[n].status = "pending"
                             /\ (r.lang = "all" \/ db[n].lang = r.lang) }
          IN  pending # {} =>
                \E x \in NewStates :
                  /\ x.pc = "publish"
                  /\ { db[n].post_id : n \in pending }
                       = { x.batch[k].post_id : k \in DOMAIN x.batch }]_vars

\* A Publisher for 'all' holds the two records of the store, fetched after
\* the clock has advanced.
C24_FetchedLater ==
  /\ now > 0
  /\ Len(db) = 2
  /\ \E r \in Running : r.kind = "pub" /\ r.lang = "all" /\ r.pc = "publish"
                        /\ r.idx = 1 /\ Len(r.batch) = 2

\* ---- C25
\* C25: no record is created for an artifact whose text field for the content
\* type is empty or absent: every record of the store has a text.
C25_NoRecordWithoutText ==
  \A n \in DOMAIN db : db[n].content # ""

\* ---- C26
\* C26: every record of the store has a content_id, has the platform of a
\* schedule_content call for its content type, and comes from an artifact of
\* its language and content type that declares this id and this platform; no
\* record comes from an artifact without id or without platform.
C26_IdAndPlatform ==
  \A n \in DOMAIN db :
    LET r == db[n] IN
    /\ r.content_id # ""
    /\ r.platform # ""
    /\ r.platform \in Range(platforms(r.content_type))
    /\ \E f \in Range(files) :
         /\ f.lang = r.lang /\ f.ftype = r.content_type
         /\ f.id = r.content_id /\ f.platform = r.platform
         /\ ~MissingIdOrPlatform(f.id, f.platform)

\* A completed Scheduler run over an artifact without id and a valid one:
\* one record.
C26_ArtifactWithoutIdSkipped ==
  /\ last.kind = "sched" /\ last.result = "completed" /\ last.errors = {}
  /\ Len(files) = 2 /\ Len(db) = 1
  /\ \E f \in Range(files) : f.kind = "object" /\ f.id = "" /\ f.platform # ""

\* ---- C27
\* The content file of a post is found, and its audio if it is a voice post
\* for sanatan.
ArtifactsFound(post) ==
  /\ get_content_file(files, post.content_id, post.content_type, post.lang,
                      post.platform) # <<>>
  /\ ~AudioMissing(post.content_type, post.platform,
                   post.content_type = "voice"
                   /\ get_audio_file(audio, post.content_id, post.lang, post.platform))

\* The status the mode and the platform determine.
StatusFor(preview_mode, platform) ==
  IF preview_mode THEN "preview"
  ELSE IF platform \in KNOWN_PLATFORMS THEN "published" ELSE "failed"

C28_RunningStageRegistered ==
  \A p \in children :
    /\ PIPELINE[p[2]].id \in DOMAIN cli[p[1]].active_processes
    /\ cli[p[1]].active_processes[PIPELINE[p[2]].id] = p

\* ---- C29
\* Invocation i is inside kill_process.
InKillProcess(c) == c.pc \in {"kill_process", "restart_kill", "kill_wait"}

\* C29: kill_process on a tracked stage sends the termination signal first
\* and the kill only after it, to a process that was still alive when the
\* wait ended; after a graceful exit or a forced kill the process is gone;
\* and whenever kill_process returns the stage has no handle any more.
C29_TerminateThenKill ==
  /\ [](\A i \in Cli :
          cli[i].signals \in {<<>>, <<"terminate">>, <<"terminate", "kill">>})
  /\ [][\A i \in Cli :
          cli'[i].signals # cli[i].signals =>
            IF cli[i].signals = <<>>
              THEN /\ cli'[i].signals = <<"terminate">>
                   /\ cli[i].agent \in DOMAIN cli[i].active_processes
              ELSE /\ cli'[i].signals = <<"terminate", "kill">>
                   /\ cli[i].pc = "kill_wait"
                   /\ cli[i].active_processes[cli[i].agent] \in children]_vars
  /\ [][\A i \in Cli :
          (InKillProcess(cli[i]) /\ ~InKillProcess(cli'[i])) =>
            /\ cli[i].agent \notin DOMAIN cli'[i].active_processes
            /\ cli'[i].report \in {"terminated", "forcefully_killed"} =>
                 cli[i].active_processes[cli[i].agent] \notin children']_vars

\* kill <agent> on a tracked stage whose process outlived the timeout.
C29_ForcedKill ==
  \E i \in Cli :
    /\ cli[i].cmd = "kill" /\ cli[i].pc = "exited"
    /\ cli[i].report = "forcefully_killed"
    /\ cli[i].signals = <<"terminate", "kill">>
    /\ cli[i].agent \notin DOMAIN cli[i].active_processes

\* ---- C30
\* C30: when restart-pipeline for a language goes from its terminate part to
\* its relaunch, no stage process of a run of that language is alive and that
\* run launches no further stage; the new run keeps its entry registered for
\* as long as it launches stages and waits for them.
C30_TerminateThenRelaunch ==
  /\ [][\A j \in Cli : RestartPipeline(j) =>
          \A i \in Cli \ {j} : RunsPipeline(i, cli[j].lang) =>
            /\ { p \in children' : p[1] = i } = {}
            /\ cli'[i].pc \notin {"launch", "wait"}]_vars
  /\ [](\A j \in Cli :
          (cli[j].cmd = "restart-pipeline" /\ cli[j].pc \in {"launch", "wait"}) =>
            pipeline_key(cli[j].lang) \in DOMAIN cli[j].active_pipelines)


\* ---- C31
\* Row for row, the tables differ in status at most.
SameButStatus(table, after) ==
  /\ DOMAIN after = DOMAIN table
  /\ \A n \in DOMAIN table : after[n] = [table[n] EXCEPT !.status = after[n].status]

\* C31: no step of a Publisher (its start, a fetch, a delivery, a status
\* update) inserts or deletes a record or changes a field other than status;
\* a record is added only by a schedule_content call of a Scheduler and
\* removed only by the reset a Scheduler starts with.
C31_PublisherChangesStatusOnly ==
  /\ [][\A r \in Running : (PubFetch(r) \/ PubPublish(r) \/ PubUpdate(r)) =>
          SameButStatus(db, db')]_vars
  /\ [][\A l \in SelectableLanguages, m \in BOOLEAN : PubStart(l, m) => db' = db]_vars
  /\ [][~SameButStatus(db, db') =>
          \/ \E r \in Running : SchedBatch(r) /\ Len(db') > Len(db)
                                  /\ \A n \in DOMAIN db : db'[n] = db[n]
          \/ \E l \in SelectableLanguages : SchedStart(l) /\ db' = <<>>]_vars

\* A Publisher run for every language has ended in preview mode with the one
\* record of the store, which it found pending, now preview.
C31_StatusChangedRecordKept ==
  /\ last.kind = "pub" /\ last.lang = "all" /\ last.result = "processed"
  /\ Len(db) = 1 /\ db[1].status = "preview" /\ attempts[db[1].post_id] = 1

\* ---- C32
\* C32: a Publisher run that found no Scheduling Store to query ends with an
\* error, and its process with an exit code that makes run_pipeline abort.
C32_MissingStoreFails ==
  (last.kind = "pub" /\ ~tableExists) =>
    /\ last.result = "error"
    /\ StageFailed(returncode(last))

\* ---- C33
\* What a delivery record file holds (post_id is the history of the model).
Payload(d) == <<d.n, d.content_id, d.platform, d.language, d.status>>

\* C33: a delivery record, once written, stays as it is: every step leaves
\* each record of SCHEDULED_POSTS_DIR in place with the same content.
C33_DeliveryRecordKept ==
  [][\A d \in delivered : \E e \in delivered' : Payload(e) = Payload(d)]_vars

\* ---- C34
\* C34: when a Publisher stores the status of post p of its batch, every
\* record with another post_id keeps its status, records with the
\* content_id, platform and language of p included.
C34_OtherRecordsKeepStatus ==
  [][\A r \in Running : (PubPublish(r) \/ PubUpdate(r)) =>
       \A n \in DOMAIN db \ RowsOf(db, r.batch[r.idx]) :
         db'[n].status = db[n].status]_vars

\* ---- C35
\* C35: a Publisher run for a concrete language L fetches records of
\* language L only, attempts delivery for records of language L only, and no
\* step of it changes the status of a record of another language.
C35_OwnLanguageOnly ==
  /\ [][\A r \in Running : (PubFetch(r) /\ r.lang # "all") =>
          \A x \in NewStates : \A k \in DOMAIN x.batch : x.batch[k].lang = r.lang]_vars
  /\ [][\A r \in Running : ((PubPublish(r) \/ PubUpdate(r)) /\ r.lang # "all") =>
          /\ r.batch[r.idx].lang = r.lang
          /\ \A n \in DOMAIN db : db'[n].status # db[n].status => db[n].lang = r.lang
          /\ \A n \in DOMAIN db :
               attempts'[db[n].post_id] # attempts[db[n].post_id] => db[n].lang = r.lang]_vars

\* A run for hi has ended: the hi record was attempted and is failed, the en
\* record, due as well, was not attempted and is pending.
C35_OtherLanguageLeftPending ==
  /\ last.kind = "pub" /\ last.lang = "hi" /\ last.result = "processed"
  /\ \E i, j \in DOMAIN db :
       /\ db[i].lang = "en" /\ db[i].status = "pending" /\ db[i].scheduled_time = 0
       /\ attempts[db[i].post_id] = 0
       /\ db[j].lang = "hi" /\ db[j].status = "failed" /\ attempts[db[j].post_id] = 1

\* ---- C36
\* C36: when kill-pipeline for a language returns, every run of a pipeline
\* of that language, whether it waits for a stage or is about to launch the
\* next one, launches no further stage, has no stage process alive and no
\* handle registered.
C36_KilledRunStops ==
  [][\A j \in Cli : KillPipeline(j) =>
       \A i \in Cli : RunsPipeline(i, cli[j].lang) =>
         /\ cli'[i].pc \notin {"launch", "wait"}
         /\ \A k \in DOMAIN PIPELINE : Pid(i, k) \notin children'
         /\ DOMAIN cli'[i].active_processes = {}]_vars

\* ---- C37
\* A delivery record of a successful outcome (published or preview).
Successful(d) == d.status \in {"success", "preview"}

\* A Publisher process is between the delivery record of post_id and the
\* status update that follows it.
AboutToUpdate(post_id) ==
  \E r \in Running : /\ r.kind = "pub" /\ r.pc = "update"
                     /\ r.batch[r.idx].post_id = post_id

\* C37: wherever a Publisher is killed, a post of the store that has a
\* delivery record of a successful outcome has a terminal status, unless the
\* Publisher that wrote the record is alive and about to store it: no kill
\* leaves a delivered post pending.
C37_DeliveredMeansTerminal ==
  \A d \in delivered : \A n \in DOMAIN db :
    (Successful(d) /\ db[n].post_id = d.post_id /\ ~AboutToUpdate(d.post_id)) =>
      db[n].status \in TERMINAL

\* ---- C38
\* The call invocation i is about to make is refused or finds nothing to do:
\* run_pipeline of a language that is registered, kill_process of a stage
\* without handle, kill_pipeline (of kill-pipeline or restart-pipeline) of a
\* language that is not registered.
Vacuous(c) ==
  \/ /\ c.pc = "run_pipeline" /\ validate_environment
     /\ pipeline_key(c.lang) \in DOMAIN c.active_pipelines
  \/ c.pc = "kill_process" /\ c.agent \notin DOMAIN c.active_processes
  \/ /\ c.pc \in {"kill_pipeline", "restart_pipeline"}
     /\ pipeline_key(c.lang) \notin DOMAIN c.active_pipelines

\* C38: a refused run_pipeline, a kill_process of a stage without handle and
\* a kill_pipeline of a language without active run return at once, leave
\* active_processes and active_pipelines as they were, start no stage
\* process and signal none.
C38_VacuousChangesNothing ==
  [][\A i \in Cli : (Vacuous(cli[i]) /\ cli'[i] # cli[i]) =>
       /\ cli'[i].active_processes = cli[i].active_processes
       /\ cli'[i].active_pipelines = cli[i].active_pipelines
       /\ cli'[i].launched = cli[i].launched
       /\ cli'[i].signals = cli[i].signals
       /\ children' = children
       /\ cli'[i].pc = IF cli[i].pc = "restart_pipeline" THEN "run_pipeline" ELSE "exited"]_vars

\* A run_pipeline call was refused in one invocation, its pipeline entry and
\* its handle still registered and its stage process alive; a kill_process
\* call in another found no handle.
C38_RefusedAndNothingToKill ==
  \E i, j \in Cli :
    /\ cli[i].pc = "exited" /\ cli[i].report = "already_running"
    /\ pipeline_key(cli[i].lang) \in DOMAIN cli[i].active_pipelines
    /\ cli[i].active_pipelines[pipeline_key(cli[i].lang)] # <<>>
    /\ TrackedStage \in DOMAIN cli[i].active_processes
    /\ cli[i].active_processes[TrackedStage] \in children
    /\ cli[i].launched = <<>>
    /\ cli[j].pc = "exited" /\ cli[j].cmd = "kill" /\ cli[j].report = "no_active_process"
    /\ cli[j].signals = <<>>

\* ---- C39
\* s is the text t cut after its first n characters (t itself when it has
\* no more than n).
FirstOf(s, t, n) ==
  /\ Len(s) <= n
  /\ Len(s) <= Len(t)
  /\ \A i \in 1..Len(s) : s[i] = t[i]
  /\ Len(s) < Len(t) => Len(s) = n

\* C39: the content of a delivery payload for twitter of content type tweet
\* is the first TweetLimit characters of the content text: never longer than
\* TweetLimit, the text itself when it has TweetLimit characters or fewer;
\* the payloads of the other platforms and content types hold the whole text.
C39_TweetTruncated ==
  \A d \in delivered :
    LET text == files[1].text IN
    IF d.platform = "twitter" /\ files[1].ftype = "tweet"
      THEN /\ FirstOf(d.content, text, TweetLimit)
           /\ Len(d.content) <= TweetLimit
           /\ Len(text) <= TweetLimit => d.content = text
    ELSE IF d.platform = "linkedin" THEN d.content.summary = text
    ELSE IF d.platform = "instagram"
      THEN Len(d.content) > Len(text) /\ SubSeq(d.content, 1, Len(text)) = text
    ELSE d.content = text

\* The payload of a tweet of more than TweetLimit characters for twitter.
C39_LongTweetCut ==
  \E d \in delivered :
    /\ d.platform = "twitter" /\ files[1].ftype = "tweet"
    /\ Len(files[1].text) > TweetLimit
    /\ Len(d.content) = TweetLimit
    /\ d.content[TweetLimit] = files[1].text[TweetLimit]
====
